---- MODULE Spec2Model ----
(***************************************************************************)
(* A model of tectonic's I/O handle layer (src/io/mod.rs, src/digest.rs).  *)
(*                                                                         *)
(* Part 1: InputHandle, the digest-tracking input handle, driven by every  *)
(* sequence of read / getc / ungetc / try_seek / get_size calls and ended  *)
(* by into_name_digest.  The boxed inner source is one of the two          *)
(* InputFeatures implementations of io/mod.rs: Cursor<Vec<u8>> (seekable,  *)
(* never fails) and GzDecoder<R> (not seekable, not sizeable, reads may be *)
(* short or fail).                                                         *)
(*                                                                         *)
(* The fast-digest accumulator (twox_hash::XxHash64, an external crate) is *)
(* modelled as a collision-free running hash: a positional value over the  *)
(* bytes fed so far together with their count.                             *)
(*                                                                         *)
(* Part 2: OutputHandle.  Part 3: the IoStack fallback composition.        *)
(* Part 4: OpenResult, the IoProvider defaults and try_open_file.          *)
(* Part 5: the hex codec of digest.rs and Bundle::get_digest.              *)
(* Part 6: try_normalize_tex_path.                                         *)
(*                                                                         *)
(* An Option<T> is a sequence of length 0 (None) or 1 (Some).              *)
(***************************************************************************)
EXTENDS Integers, Sequences, FiniteSets, TLC

\* ------------------------------------------------------------------ bounds
MaxFileLen == 2
MaxBufLen == 2
MaxTotalLen == 3

Byte == {1, 2}
Names == {"a.tex"}
Min(a, b) == IF a < b THEN a ELSE b

RECURSIVE SeqsUpTo(_)
SeqsUpTo(n) ==
  IF n = 0 THEN {<<>>}
  ELSE LET S == SeqsUpTo(n - 1)
       IN  S \cup {Append(s, b) : s \in {t \in S : Len(t) = n - 1}, b \in Byte}

Files == SeqsUpTo(MaxFileLen)

\* The positions a caller passes to try_seek (std::io::SeekFrom).
SeekFrom ==
  {[whence |-> "Start", off |-> 0], [whence |-> "Start", off |-> 1],
   [whence |-> "Current", off |-> 0], [whence |-> "Current", off |-> 1],
   [whence |-> "Current", off |-> 0 - 1], [whence |-> "End", off |-> 0]}

\* ------------------------------------------------------------------ state
VARIABLES
  name,                \* InputHandle.name
  inner_kind,          \* which InputFeatures impl is boxed: "cursor" | "gz"
  inner_data,          \* the bytes of the underlying source
  inner_pos,           \* the underlying source's position
  read_only,           \* InputHandle.read_only
  digest,              \* InputHandle.digest (the running accumulator)
  ever_read,           \* InputHandle.ever_read
  did_unhandled_seek,  \* InputHandle.did_unhandled_seek
  ungetc_char,         \* InputHandle.ungetc_char : Option<u8>
  pc,                  \* "open" | "consumed" | "panicked"
  out,                 \* what into_name_digest returned
  last,                \* the last call: its arguments and what it returned
  g_bad_seek,          \* history: try_seek was called with a pos other than Start(0), Current(0)
  g_any_seek,          \* history: try_seek was called
  g_reached,           \* history: inner.read ran since creation / the last try_seek(Start(0))
  g_unget,             \* history: ungetc succeeded since creation / the last try_seek(Start(0))
  g_ret,               \* history: bytes returned by read/getc since then (while no ungetc, no bad seek)
  g_pre,               \* history: bytes had been returned when try_seek(Start(0)) was last called
  oh,                  \* Part 2: an OutputHandle, its sink and its last call
  ios,                 \* Part 3: one capability call on an IoStack
  fx                   \* Parts 4-6: one call of a function: its input and its result

handle == <<name, read_only, digest, ever_read, did_unhandled_seek, ungetc_char>>
inner == <<inner_kind, inner_data, inner_pos>>
ghosts == <<g_bad_seek, g_any_seek, g_reached, g_unget, g_ret, g_pre>>
vars == <<handle, inner, pc, out, last, ghosts>>

\* Each specification drives one part; the other parts' variables stay parked.
Parked == [pc |-> "parked"]


\* ------------------------------------------------- the digest accumulator
\* FastDigestComputer::default()
DigestDefault == [total_len |-> 0, h |-> 0]

\* FastDigestComputer::input(bytes): fold the bytes in, in order.
RECURSIVE DigestInput(_, _)
DigestInput(d, bytes) ==
  IF bytes = <<>> THEN d
  ELSE DigestInput([total_len |-> d.total_len + 1,
                    h |-> d.h * (Cardinality(Byte) + 1) + Head(bytes)],
                   Tail(bytes))

\* FastDigestData::from(FastDigestComputer): the finished fingerprint.
FastDigestDataFrom(d) == d.h

\* The fingerprint of a byte sequence hashed from scratch.
FingerprintOf(bytes) == FastDigestDataFrom(DigestInput(DigestDefault, bytes))

\* -------------------------------------------------- the underlying source
\* <inner as Read>::read(buf) with buf.len() = len: the outcomes it can have.
\* A Cursor returns all it has, up to len.  A GzDecoder may fail, and may
\* return fewer bytes than asked (never 0 unless at the end or len = 0).
\* A read that fails consumes nothing.
InnerRead(len) ==
  LET avail == IF inner_pos >= Len(inner_data) THEN 0 ELSE Len(inner_data) - inner_pos
      want  == Min(len, avail)
  IN  IF inner_kind = "cursor"
      THEN {[ok |-> TRUE, n |-> want]}
      ELSE {[ok |-> FALSE, n |-> 0]}
             \cup {[ok |-> TRUE, n |-> k] : k \in (IF want = 0 THEN {0} ELSE 1..want)}

\* The bytes an inner read of n bytes stores in the buffer.
InnerBytes(n) == SubSeq(inner_data, inner_pos + 1, inner_pos + n)

\* <inner as InputFeatures>::try_seek(pos): Cursor seeks (a negative target
\* is an error and moves nothing); GzDecoder answers NotSeekable.
InnerTrySeek(p) ==
  LET base   == IF p.whence = "Start" THEN 0
                ELSE IF p.whence = "Current" THEN inner_pos
                ELSE Len(inner_data)
      target == base + p.off
  IN  IF inner_kind = "cursor" /\ target >= 0
      THEN [ok |-> TRUE, pos |-> target]
      ELSE [ok |-> FALSE, pos |-> inner_pos]

\* <inner as InputFeatures>::get_size()
InnerGetSize ==
  IF inner_kind = "cursor" THEN [ok |-> TRUE, size |-> Len(inner_data)]
  ELSE [ok |-> FALSE, size |-> 0]

\* ------------------------------------------------------------ call records
Call(op, whence, arg, res, data, ret) ==
  [op |-> op, whence |-> whence, arg |-> arg, res |-> res, data |-> data, ret |-> ret]

\* ------------------------------------------------------------- InputHandle
\* InputHandle::new (ro = FALSE) and InputHandle::new_read_only (ro = TRUE),
\* over a source positioned at its start.
new(n, kind, data, ro) ==
  /\ name = n
  /\ inner_kind = kind
  /\ inner_data = data
  /\ inner_pos = 0
  /\ read_only = ro
  /\ digest = DigestDefault
  /\ ever_read = FALSE
  /\ did_unhandled_seek = FALSE
  /\ ungetc_char = <<>>

Init ==
  /\ \E n \in Names, kind \in {"cursor", "gz"}, data \in Files, ro \in BOOLEAN :
       new(n, kind, data, ro)
  /\ pc = "open"
  /\ out = [name |-> "", digest |-> <<>>]
  /\ last = Call("new", "", 0, "Ok", <<>>, 0)
  /\ g_bad_seek = FALSE
  /\ g_any_seek = FALSE
  /\ g_reached = FALSE
  /\ g_unget = FALSE
  /\ g_ret = <<>>
  /\ g_pre = FALSE
  /\ oh = Parked /\ ios = Parked /\ fx = Parked

\* Is the pushback byte served by this read?  (buf non-empty, byte pending)
ServesPushback(len) == len > 0 /\ ungetc_char # <<>>

\* A slip read could make: hashing the whole buffer, pushback byte included.
read_body_hashes_pushback(len, o) ==
  LET data == InnerBytes(o.n)
      buf  == (IF ServesPushback(len) THEN ungetc_char ELSE <<>>) \o data
  IN  /\ ungetc_char' = IF ServesPushback(len) THEN <<>> ELSE ungetc_char
      /\ ever_read' = TRUE
      /\ inner_pos' = inner_pos + o.n
      /\ digest' = IF o.ok /\ ~read_only THEN DigestInput(digest, buf) ELSE digest
      /\ digest'.total_len <= MaxTotalLen
      /\ UNCHANGED <<name, read_only, did_unhandled_seek, inner_kind, inner_data>>

\* A slip read could make: hashing on a read-only handle too.
read_body_hashes_read_only(len, o) ==
  LET data == InnerBytes(o.n)
  IN  /\ ungetc_char' = IF ServesPushback(len) THEN <<>> ELSE ungetc_char
      /\ ever_read' = TRUE
      /\ inner_pos' = inner_pos + o.n
      /\ digest' = IF o.ok THEN DigestInput(digest, data) ELSE digest
      /\ digest'.total_len <= MaxTotalLen
      /\ UNCHANGED <<name, read_only, did_unhandled_seek, inner_kind, inner_data>>

\* A slip read could make: a read that delivers nothing does not count.
read_body_counts_only_bytes(len, o) ==
  LET data == InnerBytes(o.n)
  IN  /\ ungetc_char' = IF ServesPushback(len) THEN <<>> ELSE ungetc_char
      /\ ever_read' = (ever_read \/ o.n > 0)
      /\ inner_pos' = inner_pos + o.n
      /\ digest' = IF o.ok /\ ~read_only THEN DigestInput(digest, data) ELSE digest
      /\ digest'.total_len <= MaxTotalLen
      /\ UNCHANGED <<name, read_only, did_unhandled_seek, inner_kind, inner_data>>

\* <InputHandle as Read>::read(buf), buf.len() = len, when the inner read
\* (of the whole buffer, or of buf[1..] in the recursive call) ends as o.
read_body(len, o) ==
  LET data == InnerBytes(o.n)
  IN  /\ ungetc_char' = IF ServesPushback(len) THEN <<>> ELSE ungetc_char
      /\ ever_read' = TRUE
      /\ inner_pos' = inner_pos + o.n
      /\ digest' = IF o.ok /\ ~read_only THEN DigestInput(digest, data) ELSE digest
      /\ digest'.total_len <= MaxTotalLen
      /\ UNCHANGED <<name, read_only, did_unhandled_seek, inner_kind, inner_data>>

\* What that read returns: the pushback byte, if served, then the inner bytes.
read_result(len, o) ==
  IF o.ok
  THEN [res |-> "Ok",
        data |-> (IF ServesPushback(len) THEN ungetc_char ELSE <<>>) \o InnerBytes(o.n)]
  ELSE [res |-> "Err", data |-> <<>>]

\* History kept across a read that returned r.
ReadHistory(r) ==
  /\ g_reached' = TRUE
  /\ g_ret' = IF g_unget \/ g_bad_seek THEN <<>> ELSE g_ret \o r.data
  /\ UNCHANGED <<g_bad_seek, g_any_seek, g_unget, g_pre>>

read(len) ==
  /\ pc = "open"
  /\ \E o \in InnerRead(IF ServesPushback(len) THEN len - 1 ELSE len) :
       LET r == read_result(len, o)
       IN  /\ read_body(len, o)
           /\ last' = Call("read", "", len, r.res, r.data, Len(r.data))
           /\ ReadHistory(r)
  /\ UNCHANGED <<pc, out>>

\* A slip getc could make: counting the pushback byte as a read of the source.
getc_pushback_counts_as_read ==
  /\ ungetc_char' = <<>>
  /\ ever_read' = TRUE
  /\ last' = Call("getc", "", 0, "Ok", ungetc_char, 0)
  /\ UNCHANGED <<name, read_only, digest, did_unhandled_seek, inner>>

\* getc, a pushback byte pending: hand it back and empty the slot.
getc_pushback ==
  /\ ungetc_char' = <<>>
  /\ last' = Call("getc", "", 0, "Ok", ungetc_char, 0)
  /\ UNCHANGED <<name, read_only, digest, ever_read, did_unhandled_seek, inner>>

\* InputHandle::getc
getc ==
  /\ pc = "open"
  /\ IF ungetc_char # <<>>
     THEN /\ getc_pushback
          /\ g_ret' = IF g_unget \/ g_bad_seek THEN <<>> ELSE g_ret \o ungetc_char
          /\ UNCHANGED <<g_bad_seek, g_any_seek, g_reached, g_unget, g_pre>>
     ELSE \E o \in InnerRead(1) :
            LET r == read_result(1, o)
            IN  /\ read_body(1, o)
                /\ last' = IF r.res = "Err" THEN Call("getc", "", 0, "Err", <<>>, 0)
                           ELSE IF Len(r.data) = 0
                                THEN Call("getc", "", 0, "ErrUnexpectedEof", <<>>, 0)
                                ELSE Call("getc", "", 0, "Ok", r.data, 0)
                /\ ReadHistory(r)
  /\ UNCHANGED <<pc, out>>

\* A slip ungetc could make: a second pushback silently replaces the first.
ungetc_overwrites(byte) ==
  /\ pc = "open"
  /\ ungetc_char' = <<byte>>
  /\ last' = Call("ungetc", "", byte, "Ok", <<>>, 0)
  /\ g_unget' = TRUE
  /\ g_ret' = <<>>
  /\ UNCHANGED <<name, read_only, digest, ever_read, did_unhandled_seek,
                 g_bad_seek, g_any_seek, g_reached, g_pre>>
  /\ UNCHANGED <<inner, pc, out>>

\* InputHandle::ungetc
ungetc(byte) ==
  /\ pc = "open"
  /\ IF ungetc_char # <<>>
     THEN /\ last' = Call("ungetc", "", byte, "ErrMisuse", <<>>, 0)
          /\ UNCHANGED <<handle, ghosts>>
     ELSE /\ ungetc_char' = <<byte>>
          /\ last' = Call("ungetc", "", byte, "Ok", <<>>, 0)
          /\ g_unget' = TRUE
          /\ g_ret' = <<>>
          /\ UNCHANGED <<name, read_only, digest, ever_read, did_unhandled_seek,
                         g_bad_seek, g_any_seek, g_reached, g_pre>>
  /\ UNCHANGED <<inner, pc, out>>

\* <InputHandle as InputFeatures>::get_size
get_size ==
  /\ pc = "open"
  /\ last' = Call("get_size", "", 0, IF InnerGetSize.ok THEN "Ok" ELSE "Err", <<>>,
                  InnerGetSize.size)
  /\ UNCHANGED <<handle, inner, pc, out, ghosts>>


Rewind == [whence |-> "Start", off |-> 0]    \* SeekFrom::Start(0)
Query == [whence |-> "Current", off |-> 0]   \* SeekFrom::Current(0)

\* The arms of try_seek's match on pos: the handle fields each leaves.
\* SeekFrom::Start(0) => restart the digest computation.
RewindArm ==
  [digest |-> DigestDefault, ever_read |-> FALSE,
   did_unhandled_seek |-> did_unhandled_seek, ungetc_char |-> <<>>]

\* SeekFrom::Current(0) => no-op, the pushback byte stays.
NoopArm ==
  [digest |-> digest, ever_read |-> ever_read,
   did_unhandled_seek |-> did_unhandled_seek, ungetc_char |-> ungetc_char]

\* _ => give up on the digest.
UnhandledArm ==
  [digest |-> digest, ever_read |-> ever_read,
   did_unhandled_seek |-> TRUE, ungetc_char |-> <<>>]

\* Slips the match could make on a rewind: forgiving an earlier unhandled
\* seek; keeping the bytes hashed so far; keeping ever_read.
try_seek_match_forgives(p) ==
  IF p = Rewind THEN [RewindArm EXCEPT !.did_unhandled_seek = FALSE]
  ELSE IF p = Query THEN NoopArm ELSE UnhandledArm

try_seek_match_keeps_digest(p) ==
  IF p = Rewind THEN [RewindArm EXCEPT !.digest = digest]
  ELSE IF p = Query THEN NoopArm ELSE UnhandledArm

try_seek_match_keeps_ever_read(p) ==
  IF p = Rewind THEN [RewindArm EXCEPT !.ever_read = ever_read]
  ELSE IF p = Query THEN NoopArm ELSE UnhandledArm

\* try_seek's match on pos, before the inner seek is attempted.
try_seek_match(p) ==
  IF p = Rewind THEN RewindArm
  ELSE IF p = Query THEN NoopArm
  ELSE UnhandledArm

\* The offset try_seek reports once the inner seek returned `offset`: one less
\* if a pushback byte is (still) pending.  `offset -= 1` on a u64 that is 0
\* panics in a build with overflow checks and wraps to 2^64 - 1 in one
\* without; the wrapped value is written -1 here (two's complement).
try_seek_offset(offset, pending) ==
  IF pending # <<>>
  THEN IF offset = 0
       THEN {[res |-> "Panic", ret |-> 0], [res |-> "Ok", ret |-> 0 - 1]}
       ELSE {[res |-> "Ok", ret |-> offset - 1]}
  ELSE {[res |-> "Ok", ret |-> offset]}

\* History kept across a try_seek(p).
SeekHistory(p) ==
  LET rewind == p = Rewind
      bad    == ~rewind /\ p # Query
  IN  /\ g_any_seek' = TRUE
      /\ g_bad_seek' = (g_bad_seek \/ bad)
      /\ g_reached' = IF rewind THEN FALSE ELSE g_reached
      /\ g_unget' = IF rewind THEN FALSE ELSE g_unget
      /\ g_ret' = IF rewind \/ bad THEN <<>> ELSE g_ret
      /\ g_pre' = IF rewind THEN g_ret # <<>> ELSE g_pre

\* <InputHandle as InputFeatures>::try_seek
try_seek(p) ==
  /\ pc = "open"
  /\ LET m == try_seek_match(p)
         s == InnerTrySeek(p)
     IN  /\ s.pos <= Len(inner_data) + 1
         /\ digest' = m.digest
         /\ ever_read' = m.ever_read
         /\ did_unhandled_seek' = m.did_unhandled_seek
         /\ ungetc_char' = m.ungetc_char
         /\ inner_pos' = s.pos
         /\ IF s.ok
            THEN \E r \in try_seek_offset(s.pos, m.ungetc_char) :
                   /\ last' = Call("try_seek", p.whence, p.off, r.res, <<>>, r.ret)
                   /\ pc' = IF r.res = "Panic" THEN "panicked" ELSE pc
            ELSE /\ last' = Call("try_seek", p.whence, p.off, "Err", <<>>, 0)
                 /\ pc' = pc
  /\ SeekHistory(p)
  /\ UNCHANGED <<name, read_only, inner_kind, inner_data, out>>

\* A slip into_name_digest could make: forgetting the read-only flag.
digest_reported_ignores_read_only == ~(did_unhandled_seek \/ ~ever_read)

\* Does into_name_digest report a fingerprint?
digest_reported == ~(did_unhandled_seek \/ ~ever_read \/ read_only)

\* InputHandle::into_name_digest (consumes the handle)
into_name_digest ==
  /\ pc = "open"
  /\ pc' = "consumed"
  /\ out' = [name |-> name,
             digest |-> IF digest_reported THEN <<FastDigestDataFrom(digest)>> ELSE <<>>]
  /\ last' = Call("into_name_digest", "", 0, "Ok", <<>>, 0)
  /\ UNCHANGED <<handle, inner, ghosts>>

Next ==
  \/ (\E len \in 0..MaxBufLen : read(len)) /\ UNCHANGED <<oh, ios, fx>>
  \/ getc /\ UNCHANGED <<oh, ios, fx>>
  \/ (\E byte \in Byte : ungetc(byte)) /\ UNCHANGED <<oh, ios, fx>>
  \/ (\E p \in SeekFrom : try_seek(p)) /\ UNCHANGED <<oh, ios, fx>>
  \/ get_size /\ UNCHANGED <<oh, ios, fx>>
  \/ into_name_digest /\ UNCHANGED <<oh, ios, fx>>

Spec == Init /\ [][Next]_<<vars, oh, ios, fx>>


\* ================================================================ claims
Consumed == pc = "consumed"
Reported == out.digest # <<>>

\* C1: if into_name_digest reports a fingerprint, it is the fingerprint of a
\* run of the source's bytes that starts at offset 0 (a prefix of the source),
\* whatever calls were made and whichever of them failed.
C1_FingerprintIsOfPrefix ==
  (Consumed /\ Reported) =>
    \E n \in 0..Len(inner_data) :
      out.digest = <<FingerprintOf(SubSeq(inner_data, 1, n))>>

\* C2: into_name_digest returns the handle's name, and the finalized
\* fingerprint exactly when ever_read, not did_unhandled_seek and not
\* read_only; otherwise no fingerprint.
C2_DigestIffReliable ==
  Consumed =>
    /\ out.name = name
    /\ Reported <=> (ever_read /\ ~did_unhandled_seek /\ ~read_only)
    /\ Reported => out.digest = <<FastDigestDataFrom(digest)>>

C2_Witness ==
  /\ Consumed /\ Reported
  /\ last.op = "into_name_digest"
  /\ digest.total_len > 0


\* C3: once try_seek is called with a position other than Start(0) and
\* Current(0), did_unhandled_seek is true and never becomes false again, and
\* into_name_digest reports no fingerprint, whatever happens in between.
C3_SeekInvalidationPermanent ==
  /\ [](g_bad_seek => did_unhandled_seek)
  /\ [][did_unhandled_seek => did_unhandled_seek']_vars
  /\ []((Consumed /\ g_bad_seek) => ~Reported)

\* An unhandled seek, then a rewind and the whole source read again (the
\* accumulator holds the whole source's fingerprint), yet nothing is reported.
C3_Witness ==
  /\ Consumed /\ g_bad_seek /\ ever_read /\ ~read_only
  /\ Len(inner_data) >= 2
  /\ g_pre
  /\ digest = DigestInput(DigestDefault, inner_data)
  /\ ~Reported

\* C4: on a handle that is not read-only and saw no unhandled seek, after
\* try_seek(Start(0)) and reads that reached the source, the reported
\* fingerprint is that of the bytes those later reads returned, alone: what
\* was read before the rewind and a pushback byte pending at the rewind
\* contribute nothing.  (g_ret restarts at each rewind and is kept while no
\* byte is pushed back after it.)
C4_SeekToZeroRecovery ==
  (Consumed /\ ~read_only /\ ~g_bad_seek /\ g_reached /\ ~g_unget) =>
    out.digest = <<FingerprintOf(g_ret)>>

\* Some bytes read, a rewind that succeeded, then the whole source read.
C4_Witness ==
  /\ Consumed /\ ~read_only /\ ~g_bad_seek /\ g_reached /\ ~g_unget
  /\ g_pre
  /\ inner_kind = "cursor"
  /\ Len(inner_data) >= 2
  /\ g_ret = inner_data
  /\ out.digest = <<FingerprintOf(inner_data)>>

\* C5: while no read has reached the source since creation or since the last
\* try_seek(Start(0)), ever_read is false and consuming the handle reports no
\* fingerprint; ungetc, getc from the pushback slot, get_size and try_seek do
\* not set ever_read, and try_seek(Start(0)) clears it.
C5_NeverReadIsAbsent ==
  ~g_reached => (~ever_read /\ (Consumed => ~Reported))

\* The whole source was read, then the handle was rewound and consumed.
C5_Witness ==
  /\ Consumed /\ ~g_reached /\ g_pre /\ ~read_only /\ ~g_bad_seek
  /\ inner_kind = "cursor"
  /\ Len(inner_data) >= 1
  /\ ~Reported

\* C6: the pushback slot never holds more than one byte; ungetc(b) with a
\* byte pending fails with the misuse error and changes nothing of the handle;
\* ungetc(b) with the slot empty succeeds and stores b.
C6_PushbackDepthOne ==
  /\ [](Len(ungetc_char) <= 1)
  /\ [][last'.op = "ungetc" =>
          IF ungetc_char # <<>>
          THEN last'.res = "ErrMisuse" /\ UNCHANGED <<handle, inner, pc, out>>
          ELSE /\ last'.res = "Ok"
               /\ ungetc_char' = <<last'.arg>>
               /\ UNCHANGED <<name, read_only, digest, ever_read, did_unhandled_seek,
                              inner, pc, out>>]_vars

\* A second ungetc was refused while the first byte is still pending.
C6_Witness ==
  /\ last.op = "ungetc" /\ last.res = "ErrMisuse"
  /\ Len(ungetc_char) = 1
  /\ ungetc_char # <<last.arg>>

\* C7: getc with a pushback byte x pending returns x, empties the slot, and
\* leaves ever_read, did_unhandled_seek, the accumulator and the source's
\* position as they were.
C7_GetcServesPushback ==
  [][(last'.op = "getc" /\ ungetc_char # <<>>) =>
       /\ last'.res = "Ok"
       /\ last'.data = ungetc_char
       /\ ungetc_char' = <<>>
       /\ UNCHANGED <<ever_read, did_unhandled_seek, digest, inner>>]_vars

\* getc returned a byte on a handle that has never read its source.
C7_Witness ==
  /\ last.op = "getc" /\ last.res = "Ok"
  /\ ~ever_read /\ ~g_any_seek
  /\ ungetc_char = <<>>
  /\ inner_pos = 0


\* C8: a read into a non-empty buffer with a pushback byte x pending clears
\* the slot and, when the inner read returns k bytes, returns x followed by
\* the next k bytes of the source (count 1 + k) and folds exactly those k
\* source bytes into the accumulator; and as long as try_seek has not been
\* called, the accumulator of a handle that is not read-only holds exactly the
\* source's bytes up to the source's position, each once and in order.
C8_ReadServesPushbackThenSource ==
  /\ [][(last'.op = "read" /\ last'.arg > 0 /\ ungetc_char # <<>>) =>
          /\ ungetc_char' = <<>>
          /\ last'.res = "Ok" =>
               LET k    == inner_pos' - inner_pos
                   tail == SubSeq(inner_data, inner_pos + 1, inner_pos + k)
               IN  /\ k \in 0..(last'.arg - 1)
                   /\ last'.data = ungetc_char \o tail
                   /\ last'.ret = 1 + k
                   /\ digest' = IF read_only THEN digest ELSE DigestInput(digest, tail)]_vars
  /\ []((~read_only /\ ~g_any_seek) =>
          digest = DigestInput(DigestDefault, SubSeq(inner_data, 1, inner_pos)))

\* A read returned a pushed-back byte that differs from the source's byte,
\* followed by a source byte, and only source bytes were hashed.
C8_Witness ==
  /\ last.op = "read" /\ last.res = "Ok" /\ last.ret = 2
  /\ ~read_only /\ ~g_any_seek /\ g_unget
  /\ inner_pos = 2
  /\ last.data[1] # inner_data[1]
  /\ last.data[2] = inner_data[2]
  /\ digest = DigestInput(DigestDefault, inner_data)

\* C9: try_seek(Current(0)) leaves the pushback byte, ever_read,
\* did_unhandled_seek and the accumulator as they were and, the source being
\* seekable, returns the source's position, less one if a pushback byte is
\* pending (a stream position: not negative).
C9_QueryIsPurePositionQuery ==
  [][(last'.op = "try_seek" /\ last'.whence = "Current" /\ last'.arg = 0) =>
       /\ UNCHANGED <<ungetc_char, ever_read, did_unhandled_seek, digest>>
       /\ inner_kind = "cursor" =>
            /\ last'.res = "Ok"
            /\ last'.ret >= 0
            /\ last'.ret = inner_pos - Len(ungetc_char)]_vars

\* The part of C9 the code keeps: the query changes nothing of the handle.
C9_QueryChangesNothing ==
  [][(last'.op = "try_seek" /\ last'.whence = "Current" /\ last'.arg = 0) =>
       UNCHANGED <<handle, inner_kind, inner_data>>]_vars

\* C10: a read-only handle never folds a byte into its accumulator and
\* reports no fingerprint when consumed; read_only never changes; and a read
\* returns what it returns on any handle: the pushback byte it served, then
\* the source's bytes from the source's position on.
C10_ReadOnlyNeverHashes ==
  /\ [](read_only => (digest = DigestDefault /\ (Consumed => ~Reported)))
  /\ [][read_only' = read_only]_vars
  /\ [][(last'.op = "read" /\ last'.res = "Ok") =>
          last'.data = (IF ServesPushback(last'.arg) THEN ungetc_char ELSE <<>>)
                         \o SubSeq(inner_data, inner_pos + 1, inner_pos')]_vars

\* A read-only handle that read its whole source, with no seek, was consumed.
C10_Witness ==
  /\ Consumed /\ read_only /\ ever_read /\ ~did_unhandled_seek
  /\ Len(inner_data) >= 2
  /\ inner_pos = Len(inner_data)
  /\ g_ret = inner_data
  /\ digest = DigestDefault
  /\ ~Reported


\* ================================================== Part 2: OutputHandle
allvars == <<vars, oh, ios, fx>>

\* The InputHandle of Part 1 is not in use.
HandleParked ==
  /\ name = "" /\ inner_kind = "" /\ inner_data = <<>> /\ inner_pos = 0
  /\ read_only = FALSE /\ digest = DigestDefault /\ ever_read = FALSE
  /\ did_unhandled_seek = FALSE /\ ungetc_char = <<>>
  /\ pc = "parked" /\ out = [name |-> "", digest |-> <<>>]
  /\ last = Call("", "", 0, "", <<>>, 0)
  /\ g_bad_seek = FALSE /\ g_any_seek = FALSE /\ g_reached = FALSE
  /\ g_unget = FALSE /\ g_ret = <<>> /\ g_pre = FALSE

Buffers == SeqsUpTo(MaxBufLen)

\* <inner as Write>::write(buf): the sink fails, or accepts the first n bytes
\* of buf, n anywhere from 0 to buf.len().
SinkWrite(buf) ==
  {[ok |-> FALSE, n |-> 0]} \cup {[ok |-> TRUE, n |-> k] : k \in 0..Len(buf)}

\* OutputHandle::new
OutputHandle_new(n) ==
  [name |-> n, sink |-> <<>>, digest |-> DigestDefault, pc |-> "open",
   out |-> [name |-> "", digest |-> 0],
   last |-> [op |-> "new", buf |-> <<>>, res |-> "Ok", n |-> 0],
   g_partial |-> FALSE, g_failed |-> FALSE]

OutInit ==
  /\ HandleParked /\ ios = Parked /\ fx = Parked
  /\ \E n \in Names : oh = OutputHandle_new(n)

\* A slip write could make: hashing the whole buffer, not what was accepted.
OutputHandle_write_digest_whole_buf(buf, n) == DigestInput(oh.digest, buf)

\* write: self.digest.input(&buf[..n])
OutputHandle_write_digest(buf, n) == DigestInput(oh.digest, SubSeq(buf, 1, n))

\* <OutputHandle as Write>::write
OutputHandle_write(buf) ==
  /\ oh.pc = "open"
  /\ \E o \in SinkWrite(buf) :
       /\ Len(oh.sink) + o.n <= MaxTotalLen
       /\ oh' = IF o.ok
                THEN [oh EXCEPT !.sink = @ \o SubSeq(buf, 1, o.n),
                                !.digest = OutputHandle_write_digest(buf, o.n),
                                !.last = [op |-> "write", buf |-> buf, res |-> "Ok", n |-> o.n],
                                !.g_partial = @ \/ o.n < Len(buf)]
                ELSE [oh EXCEPT !.last = [op |-> "write", buf |-> buf, res |-> "Err", n |-> 0],
                                !.g_failed = TRUE]
  /\ UNCHANGED <<vars, ios, fx>>

\* <OutputHandle as Write>::flush: whatever the sink's flush answers.
OutputHandle_flush ==
  /\ oh.pc = "open"
  /\ \E r \in {"Ok", "Err"} :
       oh' = [oh EXCEPT !.last = [op |-> "flush", buf |-> <<>>, res |-> r, n |-> 0]]
  /\ UNCHANGED <<vars, ios, fx>>

\* OutputHandle::into_name_digest (consumes the handle)
OutputHandle_into_name_digest ==
  /\ oh.pc = "open"
  /\ oh' = [oh EXCEPT !.pc = "consumed",
                      !.out = [name |-> oh.name, digest |-> FastDigestDataFrom(oh.digest)],
                      !.last = [op |-> "into_name_digest", buf |-> <<>>, res |-> "Ok", n |-> 0]]
  /\ UNCHANGED <<vars, ios, fx>>

OutNext ==
  \/ \E buf \in Buffers : OutputHandle_write(buf)
  \/ OutputHandle_flush
  \/ OutputHandle_into_name_digest

SpecOut == OutInit /\ [][OutNext]_allvars

\* C11: after any writes and flushes, into_name_digest yields the name and
\* the fingerprint of exactly the bytes the sink accepted, in call order; a
\* write that fails and every flush leave the accumulator as it was.
C11_OutputFingerprint ==
  /\ [](oh.pc = "consumed" =>
          (oh.out.name = oh.name /\ oh.out.digest = FingerprintOf(oh.sink)))
  /\ [][(oh'.last.op = "flush" \/ (oh'.last.op = "write" /\ oh'.last.res = "Err")) =>
          (oh'.digest = oh.digest /\ oh'.sink = oh.sink)]_allvars
  /\ [][(oh'.last.op = "write" /\ oh'.last.res = "Ok") =>
          /\ oh'.last.n <= Len(oh'.last.buf)
          /\ oh'.sink = oh.sink \o SubSeq(oh'.last.buf, 1, oh'.last.n)]_allvars

\* Consumed after a write the sink took only part of, and one that failed.
C11_Witness ==
  /\ oh.pc = "consumed" /\ oh.g_partial /\ oh.g_failed
  /\ Len(oh.sink) >= 2
  /\ oh.out.digest = FingerprintOf(oh.sink)


\* ================================================== Part 3: IoStack
\* The composite provider (io/stack.rs): an ordered list of providers, each
\* capability call tried on them in order.  A provider is represented by the
\* OpenResult it gives for the call being made.
MaxProviders == 3

NotAvailable == [kind |-> "NotAvailable", v |-> ""]
OpenResults ==
  {NotAvailable}
    \cup {[kind |-> "Ok", v |-> x] : x \in {"X", "Y"}}
    \cup {[kind |-> "Err", v |-> x] : x \in {"E", "F"}}

RECURSIVE ProviderLists(_)
ProviderLists(n) ==
  IF n = 0 THEN {<<>>}
  ELSE LET S == ProviderLists(n - 1)
       IN  S \cup {Append(l, r) : l \in {t \in S : Len(t) = n - 1}, r \in OpenResults}

\* IoStack::new(providers), and a capability call about to start.
StackInit ==
  /\ HandleParked /\ oh = Parked /\ fx = Parked
  /\ \E l \in ProviderLists(MaxProviders) :
       ios = [providers |-> l, i |-> 1, queried |-> <<>>, result |-> <<>>, pc |-> "calling"]

\* A slip the loop could make: going on to the next provider after an error.
IoStack_step_masks_error(r) == r.kind = "Ok"

\* Does the result r of the provider just asked end the call?
IoStack_step_returns(r) == r.kind # "NotAvailable"

\* One turn of the loop over the providers: ask the next one.
IoStack_ask ==
  /\ ios.pc = "calling"
  /\ ios.i <= Len(ios.providers)
  /\ LET r == ios.providers[ios.i]
     IN  ios' = IF IoStack_step_returns(r)
                THEN [ios EXCEPT !.queried = Append(@, ios.i), !.result = <<r>>,
                                 !.pc = "returned"]
                ELSE [ios EXCEPT !.queried = Append(@, ios.i), !.i = @ + 1]
  /\ UNCHANGED <<vars, oh, fx>>

\* The loop ran out of providers: the call returns NotAvailable.
IoStack_exhausted ==
  /\ ios.pc = "calling"
  /\ ios.i > Len(ios.providers)
  /\ ios' = [ios EXCEPT !.result = <<NotAvailable>>, !.pc = "returned"]
  /\ UNCHANGED <<vars, oh, fx>>

StackNext == IoStack_ask \/ IoStack_exhausted

SpecStack == StackInit /\ [][StackNext]_allvars

\* The first provider, in priority order, whose answer is found or hard-error
\* (0 if every provider answers not-available).
FirstDefinite(l) ==
  IF \A j \in 1..Len(l) : l[j] = NotAvailable THEN 0
  ELSE CHOOSE j \in 1..Len(l) :
         l[j] # NotAvailable /\ \A k \in 1..(j - 1) : l[k] = NotAvailable

\* C12: the providers are asked strictly in priority order; the call returns
\* the answer of the first provider that answers found or hard-error, asks no
\* provider after it, never replaces an earlier hard-error by a later found,
\* and returns not-available exactly when every provider answered so.
C12_FallbackOrder ==
  LET l == ios.providers
      f == FirstDefinite(l)
  IN  /\ \A j \in 1..Len(ios.queried) : ios.queried[j] = j
      /\ Len(ios.queried) <= (IF f = 0 THEN Len(l) ELSE f)
      /\ ios.pc = "returned" =>
           /\ ios.result = <<IF f = 0 THEN NotAvailable ELSE l[f]>>
           /\ Len(ios.queried) = (IF f = 0 THEN Len(l) ELSE f)
           /\ (ios.result = <<NotAvailable>>) <=> (\A j \in 1..Len(l) : l[j] = NotAvailable)

\* [A (not-available), B (found X), C (found Y)]: X is returned, C never asked.
C12_Witness ==
  /\ ios.pc = "returned"
  /\ ios.providers = <<NotAvailable, [kind |-> "Ok", v |-> "X"], [kind |-> "Ok", v |-> "Y"]>>
  /\ ios.result = <<[kind |-> "Ok", v |-> "X"]>>
  /\ ios.queried = <<1, 2>>


\* ======================= Part 4: OpenResult, IoProvider, try_open_file
\* A function call under test: fx = [fn, in, out, pc], pc "ready" then "done".
Ready(fn, in) == [fn |-> fn, in |-> in, out |-> <<>>, pc |-> "ready"]
Applies(fn) == fx # Parked /\ fx.fn = fn /\ fx.pc = "ready"
Done(fn) == fx # Parked /\ fx.fn = fn /\ fx.pc = "done"
Return(v) == fx' = [fx EXCEPT !.out = v, !.pc = "done"]

\* --- OpenResult<T>
\* A slip must_exist could make: reporting every failure as not-found.
must_exist_forgets_error(r) ==
  IF r.kind = "Ok" THEN [res |-> "Ok", v |-> r.v] ELSE [res |-> "Err", v |-> "NotFound"]

\* OpenResult::must_exist: a plain Result.
must_exist(r) ==
  IF r.kind = "Ok" THEN [res |-> "Ok", v |-> r.v]
  ELSE IF r.kind = "Err" THEN [res |-> "Err", v |-> r.v]
  ELSE [res |-> "Err", v |-> "NotFound"]

\* OpenResult::is_not_available
is_not_available(r) == r = NotAvailable

\* --- trait IoProvider
\* A backend gives, for each open method, Unimplemented (the trait's default
\* body runs) or the OpenResult its own implementation returns for the name
\* asked.
Methods ==
  {"output_open_name", "output_open_stdout", "input_open_name", "input_open_primary",
   "input_open_format"}
Unimplemented == [kind |-> "Unimplemented", v |-> ""]
ImplResults == {NotAvailable, [kind |-> "Ok", v |-> "X"], [kind |-> "Err", v |-> "E"]}
Backends == [Methods -> ImplResults \cup {Unimplemented}]

\* The default bodies of the trait.
output_open_name_default == NotAvailable
output_open_stdout_default == NotAvailable
input_open_name_default == NotAvailable
input_open_primary_default == NotAvailable

\* self.input_open_name(name, status) on backend b
input_open_name_call(b) ==
  IF b["input_open_name"] # Unimplemented THEN b["input_open_name"]
  ELSE input_open_name_default

\* What the default of input_open_format would be if it were like the others.
input_open_format_default_not_available(b) == NotAvailable

\* The default body of input_open_format: self.input_open_name(name, status)
input_open_format_default(b) == input_open_name_call(b)

\* Calling method m of backend b.
IoProvider_call(b, m) ==
  IF b[m] # Unimplemented THEN b[m]
  ELSE IF m = "output_open_name" THEN output_open_name_default
  ELSE IF m = "output_open_stdout" THEN output_open_stdout_default
  ELSE IF m = "input_open_name" THEN input_open_name_default
  ELSE IF m = "input_open_primary" THEN input_open_primary_default
  ELSE input_open_format_default(b)

\* --- try_open_file
\* What File::open(path) can answer: a file, or an io::Error of some kind.
FileOpenResults ==
  {[ok |-> TRUE, v |-> "file"]}
    \cup {[ok |-> FALSE, v |-> k] :
            k \in {"NotFound", "PermissionDenied", "Interrupted", "Other"}}

\* A slip try_open_file could make: every failure read as not-available.
try_open_file_hides_errors(o) ==
  IF o.ok THEN [kind |-> "Ok", v |-> o.v] ELSE NotAvailable

\* try_open_file
try_open_file(o) ==
  IF o.ok THEN [kind |-> "Ok", v |-> o.v]
  ELSE IF o.v = "NotFound" THEN NotAvailable
  ELSE [kind |-> "Err", v |-> o.v]

\* --- the calls
OpenInit ==
  /\ HandleParked /\ oh = Parked /\ ios = Parked
  /\ \/ \E r \in OpenResults : fx = Ready("must_exist", r)
     \/ \E r \in OpenResults : fx = Ready("is_not_available", r)
     \/ \E b \in Backends, m \in Methods : fx = Ready("IoProvider", [b |-> b, m |-> m])
     \/ \E o \in FileOpenResults : fx = Ready("try_open_file", o)

Apply_must_exist ==
  Applies("must_exist") /\ Return(must_exist(fx.in)) /\ UNCHANGED <<vars, oh, ios>>

Apply_is_not_available ==
  Applies("is_not_available") /\ Return(is_not_available(fx.in))
    /\ UNCHANGED <<vars, oh, ios>>

Apply_IoProvider ==
  Applies("IoProvider") /\ Return(IoProvider_call(fx.in.b, fx.in.m))
    /\ UNCHANGED <<vars, oh, ios>>

Apply_try_open_file ==
  Applies("try_open_file") /\ Return(try_open_file(fx.in)) /\ UNCHANGED <<vars, oh, ios>>

OpenNext ==
  \/ Apply_must_exist
  \/ Apply_is_not_available
  \/ Apply_IoProvider
  \/ Apply_try_open_file

SpecOpen == OpenInit /\ [][OpenNext]_allvars

\* C13 as stated: a method the backend does not implement answers
\* not-available, whatever else the backend implements.
C13_EveryDefaultNotAvailable ==
  (Done("IoProvider") /\ fx.in.b[fx.in.m] = Unimplemented) => fx.out = NotAvailable

\* C13 amended: an unimplemented open-output-by-name, open-stdout,
\* open-input-by-name or open-primary-input answers not-available; an
\* unimplemented open-input-as-format answers what the backend's
\* open-input-by-name answers (not-available if that is unimplemented too).
C13_DefaultsExceptFormat ==
  (Done("IoProvider") /\ fx.in.b[fx.in.m] = Unimplemented) =>
    IF fx.in.m # "input_open_format" THEN fx.out = NotAvailable
    ELSE IF fx.in.b["input_open_name"] = Unimplemented THEN fx.out = NotAvailable
    ELSE fx.out = fx.in.b["input_open_name"]

\* A backend implementing only input_open_name is asked for a format file.
C13_Witness ==
  /\ Done("IoProvider")
  /\ fx.in.m = "input_open_format"
  /\ \A m \in Methods : (fx.in.b[m] = Unimplemented) <=> (m # "input_open_name")
  /\ fx.in.b["input_open_name"] = [kind |-> "Ok", v |-> "X"]
  /\ fx.out = [kind |-> "Ok", v |-> "X"]

\* C15: must_exist maps found(v) to success v, hard-error(e) to failure e
\* and not-available to a not-found failure; is_not_available is true for
\* the not-available variant and no other.
C15_OpenResultConversions ==
  /\ Done("must_exist") =>
       /\ fx.in.kind \in {"Ok", "NotAvailable", "Err"}
       /\ fx.in.kind = "Ok" => fx.out = [res |-> "Ok", v |-> fx.in.v]
       /\ fx.in.kind = "Err" => fx.out = [res |-> "Err", v |-> fx.in.v]
       /\ fx.in.kind = "NotAvailable" => fx.out = [res |-> "Err", v |-> "NotFound"]
  /\ Done("is_not_available") => (fx.out <=> fx.in.kind = "NotAvailable")

\* must_exist handed a hard error back unchanged.
C15_Witness ==
  /\ Done("must_exist")
  /\ fx.in = [kind |-> "Err", v |-> "E"]
  /\ fx.out = [res |-> "Err", v |-> "E"]

\* C16: try_open_file answers found for a file that opened, not-available
\* for the not-found failure alone, and hard-error, carrying the failure, for
\* every other failure.
C16_OnlyNotFoundIsNotAvailable ==
  Done("try_open_file") =>
    /\ (fx.out = NotAvailable) <=> (~fx.in.ok /\ fx.in.v = "NotFound")
    /\ (fx.out.kind = "Ok") <=> fx.in.ok
    /\ (~fx.in.ok /\ fx.in.v # "NotFound") => fx.out = [kind |-> "Err", v |-> fx.in.v]

\* A permission failure came back as a hard error.
C16_Witness ==
  /\ Done("try_open_file")
  /\ fx.in = [ok |-> FALSE, v |-> "PermissionDenied"]
  /\ fx.out = [kind |-> "Err", v |-> "PermissionDenied"]


\* ================================ Part 5: the hex codec and get_digest
\* A text (&str, String) is the sequence of its UTF-8 bytes, since len() and
\* slicing count bytes.  The bytes are written as one-character strings: the
\* ASCII characters themselves, and "L", "T" for the lead and the trailing
\* byte of a two-byte character.  A byte value (u8) is a number 0..255.
MaxHexBytes == 2
N_BYTES == 1          \* digest.rs:44 has 32; scaled, DIGEST_LEN stays 2 * N_BYTES
DIGEST_LEN == 2 * N_BYTES

Octets == {0, 9, 10, 15, 16, 127, 128, 171, 255}
HexLower == <<"0", "1", "2", "3", "4", "5", "6", "7", "8", "9", "a", "b", "c", "d", "e", "f">>
HexUpper == <<"0", "1", "2", "3", "4", "5", "6", "7", "8", "9", "A", "B", "C", "D", "E", "F">>
Range(f) == {f[i] : i \in DOMAIN f}
IndexIn(c, t) == CHOOSE i \in DOMAIN t : t[i] = c

RECURSIVE OctetSeqs(_)
OctetSeqs(n) ==
  IF n = 0 THEN {<<>>}
  ELSE LET S == OctetSeqs(n - 1)
       IN  S \cup {Append(s, b) : s \in {t \in S : Len(t) = n - 1}, b \in Octets}

RECURSIVE Flatten(_)
Flatten(ss) == IF ss = <<>> THEN <<>> ELSE Head(ss) \o Flatten(Tail(ss))

\* format!("{:02x}", b)
Format02x(b) == <<HexLower[(b \div 16) + 1], HexLower[(b % 16) + 1]>>

\* A slip bytes_to_hex could make: "{:x}", no zero padding.
bytes_to_hex_unpadded(bytes) ==
  Flatten([i \in 1..Len(bytes) |->
             IF bytes[i] < 16 THEN <<HexLower[bytes[i] + 1]>> ELSE Format02x(bytes[i])])

\* bytes_to_hex
bytes_to_hex(bytes) == Flatten([i \in 1..Len(bytes) |-> Format02x(bytes[i])])

\* char::to_digit(16)
IsHexDigit(c) == c \in Range(HexLower) \cup Range(HexUpper)
DigitValue(c) ==
  IF c \in Range(HexLower) THEN IndexIn(c, HexLower) - 1 ELSE IndexIn(c, HexUpper) - 1

RECURSIVE DigitsValue(_, _)
DigitsValue(acc, ds) ==
  IF ds = <<>> THEN acc ELSE DigitsValue(acc * 16 + DigitValue(Head(ds)), Tail(ds))

\* u8::from_str_radix(s, 16): an optional leading "+", then at least one
\* digit, all of them hexadecimal, the value at most 255.
from_str_radix(s) ==
  LET ds == IF s # <<>> /\ Head(s) = "+" THEN Tail(s) ELSE s
  IN  IF ds = <<>> \/ \E i \in 1..Len(ds) : ~IsHexDigit(ds[i])
      THEN [ok |-> FALSE, v |-> 0]
      ELSE IF DigitsValue(0, ds) > 255 THEN [ok |-> FALSE, v |-> 0]
      ELSE [ok |-> TRUE, v |-> DigitsValue(0, ds)]

\* str::is_char_boundary(idx), idx a byte offset from 0
is_char_boundary(text, idx) ==
  idx = 0 \/ idx = Len(text) \/ (idx < Len(text) /\ text[idx + 1] # "T")

\* Is this byte sequence a well-formed text?  (std::str::from_utf8)
ValidStr(bs) ==
  \A i \in 1..Len(bs) :
    /\ bs[i] = "L" => (i < Len(bs) /\ bs[i + 1] = "T")
    /\ bs[i] = "T" => (i > 1 /\ bs[i - 1] = "L")

\* hex_to_bytes, the loop from its i-th turn on: slicing off a character
\* boundary panics; a parse failure returns with dest written up to there.
RECURSIVE hex_to_bytes_loop(_, _, _)
hex_to_bytes_loop(text, dest, i) ==
  IF i = Len(dest) THEN [res |-> "Ok", dest |-> dest, err |-> <<>>]
  ELSE IF ~(is_char_boundary(text, 2 * i) /\ is_char_boundary(text, 2 * i + 2))
  THEN [res |-> "Panic", dest |-> dest, err |-> <<>>]
  ELSE LET r == from_str_radix(SubSeq(text, 2 * i + 1, 2 * i + 2))
       IN  IF r.ok THEN hex_to_bytes_loop(text, [dest EXCEPT ![i + 1] = r.v], i + 1)
           ELSE [res |-> "ParseIntError", dest |-> dest, err |-> <<>>]

\* A slip: the buffer is cleared before the lengths are compared.
hex_to_bytes_clears_dest(text, dest) ==
  IF Len(text) # 2 * Len(dest)
  THEN [res |-> "BadLength", dest |-> [i \in 1..Len(dest) |-> 0],
        err |-> <<2 * Len(dest), Len(text)>>]
  ELSE hex_to_bytes_loop(text, dest, 0)

\* hex_to_bytes; err holds what ErrorKind::BadLength carries (expected, observed)
hex_to_bytes(text, dest) ==
  IF Len(text) # 2 * Len(dest)
  THEN [res |-> "BadLength", dest |-> dest, err |-> <<2 * Len(dest), Len(text)>>]
  ELSE hex_to_bytes_loop(text, dest, 0)

\* DigestData::zeros()
DigestData_zeros == [i \in 1..N_BYTES |-> 0]

\* <DigestData as FromStr>::from_str
DigestData_from_str(text) ==
  LET r == hex_to_bytes(text, DigestData_zeros)
  IN  IF r.res = "Ok" THEN [res |-> "Ok", v |-> r.dest] ELSE [res |-> r.res, v |-> <<>>]

\* What self.input_open_name(DIGEST_NAME) can answer to get_digest: not
\* available, an error, or a handle on the manifest's bytes whose reads may fail.
ManifestAlphabet == {"0", "f", "A", "+", "g", "L", "T"}

RECURSIVE Manifests(_)
Manifests(n) ==
  IF n = 0 THEN {<<>>}
  ELSE LET S == Manifests(n - 1)
       IN  S \cup {Append(s, c) : s \in {t \in S : Len(t) = n - 1}, c \in ManifestAlphabet}

ManifestOpens ==
  {NotAvailable, [kind |-> "Err", v |-> "E"]}
    \cup {[kind |-> "Ok", v |-> "", data |-> d, read_fails |-> f] :
            d \in Manifests(DIGEST_LEN + 1), f \in BOOLEAN}

\* Bundle::get_digest (the default)
get_digest(open) ==
  IF open.kind = "NotAvailable" THEN [res |-> "Err", v |-> "ManifestMissing"]
  ELSE IF open.kind = "Err" THEN [res |-> "Err", v |-> open.v]
  ELSE LET taken == SubSeq(open.data, 1, Min(DIGEST_LEN, Len(open.data)))
       IN  IF open.read_fails \/ ~ValidStr(taken) THEN [res |-> "Err", v |-> "Io"]
           ELSE LET d == DigestData_from_str(taken)
                IN  IF d.res = "Ok" THEN [res |-> "Ok", v |-> d.v]
                    ELSE IF d.res = "Panic" THEN [res |-> "Panic", v |-> ""]
                    ELSE [res |-> "Err", v |-> "Corrupted"]

\* --- the calls
\* Texts and buffers hex_to_bytes may be called with directly.
MaxTextLen == 4
HexTextAlphabet == {"a", "F", "+", "g", "L", "T"}

RECURSIVE TextsUpTo(_)
TextsUpTo(n) ==
  IF n = 0 THEN {<<>>}
  ELSE LET S == TextsUpTo(n - 1)
       IN  S \cup {Append(s, c) : s \in {t \in S : Len(t) = n - 1}, c \in HexTextAlphabet}

HexTexts == {t \in TextsUpTo(MaxTextLen) : ValidStr(t)}
DestBuffers == {[i \in 1..n |-> fill] : n \in 0..MaxHexBytes, fill \in {0, 255}}

HexInit ==
  /\ HandleParked /\ oh = Parked /\ ios = Parked
  /\ \/ \E b \in OctetSeqs(MaxHexBytes) : fx = Ready("bytes_to_hex", b)
     \/ \E o \in ManifestOpens : fx = Ready("get_digest", o)
     \/ \E t \in HexTexts, d \in DestBuffers :
          fx = Ready("hex_to_bytes", [text |-> t, dest |-> d, src |-> <<>>, encoded |-> FALSE])

Apply_bytes_to_hex ==
  Applies("bytes_to_hex") /\ Return(bytes_to_hex(fx.in)) /\ UNCHANGED <<vars, oh, ios>>

\* The text bytes_to_hex gave is decoded into a buffer as long as the bytes.
Decode_encoded ==
  /\ Done("bytes_to_hex")
  /\ \E fill \in {0, 255} :
       fx' = Ready("hex_to_bytes",
                   [text |-> fx.out, dest |-> [i \in 1..Len(fx.in) |-> fill], src |-> fx.in,
                    encoded |-> TRUE])
  /\ UNCHANGED <<vars, oh, ios>>

Apply_hex_to_bytes ==
  Applies("hex_to_bytes") /\ Return(hex_to_bytes(fx.in.text, fx.in.dest))
    /\ UNCHANGED <<vars, oh, ios>>

Apply_get_digest ==
  Applies("get_digest") /\ Return(get_digest(fx.in)) /\ UNCHANGED <<vars, oh, ios>>

HexNext ==
  \/ Apply_bytes_to_hex
  \/ Decode_encoded
  \/ Apply_hex_to_bytes
  \/ Apply_get_digest

SpecHex == HexInit /\ [][HexNext]_allvars


\* --- claims about the hex codec and get_digest
IsLowerHexText(t) == \A i \in 1..Len(t) : t[i] \in Range(HexLower)

\* C20: decoding the hex text that bytes_to_hex gave for the bytes b, into a
\* buffer of the same length as b, succeeds and gives b back; the text is
\* twice as long as b and holds lowercase hexadecimal digits only.
C20_HexRoundTrip ==
  /\ Done("bytes_to_hex") =>
       /\ Len(fx.out) = 2 * Len(fx.in)
       /\ IsLowerHexText(fx.out)
  /\ (Done("hex_to_bytes") /\ fx.in.encoded) =>
       /\ fx.in.text = bytes_to_hex(fx.in.src)
       /\ fx.out.res = "Ok"
       /\ fx.out.dest = fx.in.src

C20_Witness ==
  /\ Done("hex_to_bytes")
  /\ fx.in.encoded
  /\ Len(fx.in.src) = MaxHexBytes
  /\ \E i \in 1..Len(fx.in.src) : fx.in.src[i] < 16
  /\ \E i \in 1..Len(fx.in.src) : fx.in.src[i] > 160
  /\ fx.in.dest # fx.in.src
  /\ fx.out.dest = fx.in.src

\* A text of exactly DIGEST_LEN hexadecimal digits.
IsHexDigest(bs) == Len(bs) = DIGEST_LEN /\ \A i \in 1..Len(bs) : IsHexDigit(bs[i])
Taken(open) == SubSeq(open.data, 1, Min(DIGEST_LEN, Len(open.data)))

\* C14: get_digest fails with the missing-manifest error when the manifest is
\* not available and with the provider's own error when opening it failed;
\* given a handle whose reads work it looks at the first DIGEST_LEN bytes at
\* most, succeeds exactly when they are a hexadecimal string of DIGEST_LEN
\* characters, and fails with the corrupted-digest error when they are a text
\* that is not one.
C14_GetDigest ==
  Done("get_digest") =>
    /\ fx.in.kind = "NotAvailable" => fx.out = [res |-> "Err", v |-> "ManifestMissing"]
    /\ fx.in.kind = "Err" => fx.out = [res |-> "Err", v |-> fx.in.v]
    /\ (fx.in.kind = "Ok" /\ ~fx.in.read_fails) =>
         /\ fx.out.res = "Ok" <=> IsHexDigest(Taken(fx.in))
         /\ (ValidStr(Taken(fx.in)) /\ ~IsHexDigest(Taken(fx.in))) =>
              fx.out = [res |-> "Err", v |-> "Corrupted"]


\* ================================ Part 6: try_normalize_tex_path
\* A path is the sequence of its characters, each a one-character string.
MaxPathLen == 6
PathAlphabet == {"/", ".", "a", " "}

RECURSIVE Paths(_)
Paths(n) ==
  IF n = 0 THEN {<<>>}
  ELSE LET S == Paths(n - 1)
       IN  S \cup {Append(s, c) : s \in {t \in S : Len(t) = n - 1}, c \in PathAlphabet}

\* The inputs of the authors' test that the claims quote, with the results
\* the test expects.
AuthorsCases ==
  { [in |-> <<>>,
     out |-> <<>>],
    [in |-> <<"/">>,
     out |-> <<"/">>],
    [in |-> <<"/", "/">>,
     out |-> <<"/">>],
    [in |-> <<".">>,
     out |-> <<".">>],
    [in |-> <<".", "/">>,
     out |-> <<".">>],
    [in |-> <<".", ".">>,
     out |-> <<".", ".">>],
    [in |-> <<"/", ".", "/", ".", "/", "/", ".">>,
     out |-> <<"/">>],
    [in |-> <<" ", " ", "m", "y", "/", "p", "a", " ", " ", "t", "h", "/", "f", "i", "l", "e", " ", ".", "t", "x", "t", " ">>,
     out |-> <<" ", " ", "m", "y", "/", "p", "a", " ", " ", "t", "h", "/", "f", "i", "l", "e", " ", ".", "t", "x", "t", " ">>],
    [in |-> <<".", "/", "m", "y", "/", "/", "/", "p", "a", "t", "h", "/", ".", "/", ".", "/", "f", "i", "l", "e", ".", "t", "x", "t">>,
     out |-> <<"m", "y", "/", "p", "a", "t", "h", "/", "f", "i", "l", "e", ".", "t", "x", "t">>],
    [in |-> <<".", "/", ".", ".", "/", "m", "y", "/", ".", ".", "/", ".", ".", "/", ".", ".", "/", "f", "i", "l", "e", ".", "t", "x", "t">>,
     out |-> <<".", ".", "/", ".", ".", "/", ".", ".", "/", "f", "i", "l", "e", ".", "t", "x", "t">>],
    [in |-> <<".", "/", "m", "y", "/", ".", ".", "/", ".", "/", "/", "p", "a", "t", "h", "/", ".", ".", "/", ".", ".", "/", "h", "e", "r", "e", "/", "/", "f", "i", "l", "e", ".", "t", "x", "t">>,
     out |-> <<".", ".", "/", "h", "e", "r", "e", "/", "f", "i", "l", "e", ".", "t", "x", "t">>] }

\* The other inputs of that test.
OtherTestPaths ==
  { <<".", "/", ".", "/", "/", ".", "/">>,
    <<"m", "y", "/", "p", "a", "t", "h", "/", "f", "i", "l", "e", ".", "t", "x", "t">>,
    <<"/", "m", "y", "/", "p", "a", "t", "h", "/", "f", "i", "l", "e", ".", "t", "x", "t">>,
    <<".", "/", ".", "/", "m", "y", "/", "/", ".", ".", "/", "p", "a", "t", "h", "/", ".", ".", "/", "h", "e", "r", "e", "/", "f", "i", "l", "e", ".", "t", "x", "t">>,
    <<"/", "m", "y", "/", ".", ".", "/", ".", ".", "/", "f", "i", "l", "e", ".", "t", "x", "t">>,
    <<"/", "m", "y", "/", ".", "/", ".", ".", "/", ".", "/", "p", "a", "t", "h", "/", "/", ".", ".", "/", ".", ".", "/", "f", "i", "l", "e", ".", "t", "x", "t">> }

Dot == <<".">>
DotDot == <<".", ".">>
Some(v) == [some |-> TRUE, v |-> v]
None == [some |-> FALSE, v |-> <<>>]

\* path.split('/'): the pieces between the separators, empty ones included.
RECURSIVE split(_, _, _)
split(path, i, cur) ==
  IF i > Len(path) THEN <<cur>>
  ELSE IF path[i] = "/" THEN <<cur>> \o split(path, i + 1, <<>>)
  ELSE split(path, i + 1, Append(cur, path[i]))

\* [..].join("/")
RECURSIVE join(_)
join(segs) ==
  IF segs = <<>> THEN <<>>
  ELSE IF Len(segs) = 1 THEN segs[1]
  ELSE segs[1] \o <<"/">> \o join(Tail(segs))

\* A slip: ".." pops the root like any other segment.
pop_dotdot_through_root(st) ==
  IF st.r = <<>> THEN [st EXCEPT !.parent_level = @ + 1]
  ELSE [st EXCEPT !.r = SubSeq(@, 1, Len(@) - 1)]

\* The ".." arm: r.pop() gave the root (no result), nothing (one more level
\* up), or a segment (dropped).
pop_dotdot(st) ==
  IF st.r = <<>> THEN [st EXCEPT !.parent_level = @ + 1]
  ELSE IF st.r[Len(st.r)] = <<>> THEN [st EXCEPT !.none = TRUE]
  ELSE [st EXCEPT !.r = SubSeq(@, 1, Len(@) - 1)]

\* A slip: "." pieces are kept like ordinary ones.
loop_step_keeps_dot(st, c, i) ==
  IF c = <<>> /\ i = 1 THEN [st EXCEPT !.has_root = TRUE, !.r = Append(@, <<>>)]
  ELSE IF c = <<>> THEN st
  ELSE IF c = DotDot THEN pop_dotdot(st)
  ELSE [st EXCEPT !.r = Append(@, c)]

\* One turn of the loop, on the i-th piece c (i from 1).
loop_step(st, c, i) ==
  IF c = <<>> /\ i = 1 THEN [st EXCEPT !.has_root = TRUE, !.r = Append(@, <<>>)]
  ELSE IF c = <<>> \/ c = Dot THEN st
  ELSE IF c = DotDot THEN pop_dotdot(st)
  ELSE [st EXCEPT !.r = Append(@, c)]

RECURSIVE loop(_, _, _)
loop(segs, i, st) ==
  IF i > Len(segs) \/ st.none THEN st
  ELSE loop(segs, i + 1, loop_step(st, segs[i], i))

\* A slip: the levels above the start are not written out.
assemble_without_parents(st) == join(st.r)

\* repeat("..").take(parent_level).chain(r).join("/")
assemble(st) == join([k \in 1..st.parent_level |-> DotDot] \o st.r)

\* A slip: an empty result is returned as it is.
finish_keeps_empty(joined, has_root) == Some(joined)

\* The closing if: an empty result stands for the root or for ".".
finish(joined, has_root) ==
  IF joined = <<>> THEN (IF has_root THEN Some(<<"/">>) ELSE Some(Dot)) ELSE Some(joined)

\* try_normalize_tex_path
try_normalize_tex_path(path) ==
  IF path = <<>> THEN Some(<<>>)
  ELSE LET st == loop(split(path, 1, <<>>), 1,
                      [r |-> <<>>, parent_level |-> 0, has_root |-> FALSE, none |-> FALSE])
       IN  IF st.none THEN None ELSE finish(assemble(st), st.has_root)

\* --- the calls
PathInit ==
  /\ HandleParked /\ oh = Parked /\ ios = Parked
  /\ \E p \in Paths(MaxPathLen) \cup {c.in : c \in AuthorsCases} \cup OtherTestPaths :
       fx = Ready("try_normalize_tex_path", p)

Apply_try_normalize_tex_path ==
  Applies("try_normalize_tex_path") /\ Return(try_normalize_tex_path(fx.in))
    /\ UNCHANGED <<vars, oh, ios>>

\* The normalised form of a path is normalised once more.
Normalize_result ==
  /\ Done("try_normalize_tex_path")
  /\ fx.out.some
  /\ fx' = Ready("normalize_again", [path |-> fx.out.v, from |-> fx.in])
  /\ UNCHANGED <<vars, oh, ios>>

Apply_normalize_again ==
  Applies("normalize_again") /\ Return(try_normalize_tex_path(fx.in.path))
    /\ UNCHANGED <<vars, oh, ios>>

PathNext ==
  \/ Apply_try_normalize_tex_path
  \/ Normalize_result
  \/ Apply_normalize_again

SpecPath == PathInit /\ [][PathNext]_allvars


\* --- claims about try_normalize_tex_path
Rooted(p) == p # <<>> /\ p[1] = "/"
Segments(p) == split(p, 1, <<>>)
IsOrdinary(c) == c # <<>> /\ c # Dot /\ c # DotDot
CountIn(segs, k, S) == Cardinality({j \in 1..k : segs[j] \in S})

\* By how much the ".." pieces among the first k outnumber the ordinary ones.
Excess(segs, k) ==
  CountIn(segs, k, {DotDot}) - Cardinality({j \in 1..k : IsOrdinary(segs[j])})

\* How many ".." pieces found nothing before them left to cancel.
Unmatched(segs) ==
  LET E == {Excess(segs, k) : k \in 1..Len(segs)} \cup {0}
  IN  CHOOSE m \in E : \A e \in E : e <= m

LeadingDotDots(segs) ==
  Cardinality({n \in 1..Len(segs) : \A i \in 1..n : segs[i] = DotDot})

\* What is left of a path without ".." pieces: its ordinary pieces, in order.
Kept(p) == SelectSeq(Segments(p), IsOrdinary)
WithoutDotDot(p) ==
  IF Rooted(p) THEN <<"/">> \o join(Kept(p))
  ELSE IF Kept(p) = <<>> THEN Dot ELSE join(Kept(p))

\* C17: the normaliser gives the results the authors' test expects on the
\* quoted inputs; a non-empty path without ".." pieces comes out as its
\* ordinary pieces in order, spaces and all, behind the root if it had one
\* (and as "." when relative with nothing left); a relative path always has a
\* result, which starts with as many ".." as there were ".." pieces that
\* found no retained piece to pop.
C17_NormalizeCases ==
  Done("try_normalize_tex_path") =>
    /\ \A c \in AuthorsCases : fx.in = c.in => fx.out = Some(c.out)
    /\ (fx.in # <<>> /\ DotDot \notin Range(Segments(fx.in))) =>
         fx.out = Some(WithoutDotDot(fx.in))
    /\ ~Rooted(fx.in) =>
         /\ fx.out.some
         /\ LeadingDotDots(Segments(fx.out.v)) = Unmatched(Segments(fx.in))

C17_Witness ==
  /\ Done("try_normalize_tex_path")
  /\ ~Rooted(fx.in)
  /\ Unmatched(Segments(fx.in)) = 3
  /\ CountIn(Segments(fx.in), Len(Segments(fx.in)), {DotDot}) = 4
  /\ CountIn(Segments(fx.in), Len(Segments(fx.in)), {Dot}) > 0
  /\ Len(Kept(fx.in)) = 2
  /\ LeadingDotDots(Segments(fx.out.v)) = 3

\* Does some ".." piece of a rooted path come when nothing but the root is left?
Escapes(p) == \E k \in 1..Len(Segments(p)) : Excess(Segments(p), k) > 0

\* C18: there is no result exactly when the path starts with "/" and some
\* ".." comes when only the root is retained; the result for a path that
\* starts with "/" has no ".." piece.
C18_NoneIffEscapesRoot ==
  Done("try_normalize_tex_path") =>
    /\ ~fx.out.some <=> (Rooted(fx.in) /\ Escapes(fx.in))
    /\ (fx.out.some /\ Rooted(fx.in)) => DotDot \notin Range(Segments(fx.out.v))

C18_Witness ==
  /\ Done("try_normalize_tex_path")
  /\ ~fx.out.some
  /\ \E k \in 1..Len(Segments(fx.in)) : \E j \in (k + 1)..Len(Segments(fx.in)) :
       /\ IsOrdinary(Segments(fx.in)[k])
       /\ Excess(Segments(fx.in), j) > 0
       /\ \A i \in 1..(j - 1) : Excess(Segments(fx.in), i) <= 0

\* C19 as stated: the empty path normalises to itself, and every non-empty
\* path made of "." and "/" characters only that does not start with "/"
\* normalises to ".".
C19_DotsAndSeparators ==
  Done("try_normalize_tex_path") =>
    /\ fx.in = <<>> => fx.out = Some(<<>>)
    /\ (fx.in # <<>> /\ ~Rooted(fx.in) /\ Range(fx.in) \subseteq {".", "/"}) =>
         fx.out = Some(Dot)

\* C19: the empty path normalises to itself, and every non-empty path that
\* does not start with "/" and whose pieces are all empty or "." normalises
\* to ".".
C19_EmptyAndDotPieces ==
  Done("try_normalize_tex_path") =>
    /\ fx.in = <<>> => fx.out = Some(<<>>)
    /\ (fx.in # <<>> /\ ~Rooted(fx.in) /\ Range(Segments(fx.in)) \subseteq {<<>>, Dot}) =>
         fx.out = Some(Dot)

C19_Witness ==
  /\ Done("try_normalize_tex_path")
  /\ ~Rooted(fx.in)
  /\ Range(Segments(fx.in)) = {<<>>, Dot}
  /\ Len(Segments(fx.in)) >= 4
  /\ fx.out = Some(Dot)


\* --- claims about hex_to_bytes called directly
WrongLength == Len(fx.in.text) # 2 * Len(fx.in.dest)

\* C21: hex_to_bytes called with a text whose length is not twice the
\* buffer's fails with the length error, which carries the expected length
\* (twice the buffer's) and the text's, and leaves the buffer as it was.
C21_BadLengthLeavesDest ==
  (Done("hex_to_bytes") /\ WrongLength) =>
    /\ fx.out.res = "BadLength"
    /\ fx.out.err = <<2 * Len(fx.in.dest), Len(fx.in.text)>>
    /\ fx.out.dest = fx.in.dest

C21_Witness ==
  /\ Done("hex_to_bytes")
  /\ ~fx.in.encoded
  /\ WrongLength
  /\ Len(fx.in.dest) = MaxHexBytes
  /\ fx.in.dest[1] = 255
  /\ Len(fx.in.text) >= 2
  /\ IsHexDigit(fx.in.text[1]) /\ IsHexDigit(fx.in.text[2])
  /\ fx.out.res = "BadLength"

\* C22: hex_to_bytes called with a text twice as long as the buffer fails
\* with the digit-parsing error whenever some character of the text is not a
\* hexadecimal digit, and succeeds only when every character is one.
C22_NonHexIsRejected ==
  (Done("hex_to_bytes") /\ ~WrongLength) =>
    /\ (\E i \in 1..Len(fx.in.text) : ~IsHexDigit(fx.in.text[i])) =>
         fx.out.res = "ParseIntError"
    /\ fx.out.res = "Ok" => \A i \in 1..Len(fx.in.text) : IsHexDigit(fx.in.text[i])


\* ================================ more claims about InputHandle (Part 1)
QueryStep == last'.op = "try_seek" /\ last'.whence = "Current" /\ last'.arg = 0

\* C23: whenever try_seek(Current(0)) is called with a pushback byte pending,
\* the source's position is at least 1, the call does not panic, and an
\* offset it reports is the source's position minus one, not negative.
C23_OffsetNeverUnderflows ==
  [][(QueryStep /\ ungetc_char # <<>>) =>
       /\ inner_pos >= 1
       /\ last'.res # "Panic"
       /\ last'.res = "Ok" => (last'.ret >= 0 /\ last'.ret = inner_pos - 1)]_vars

\* No byte has come from the source since the handle was made: the source
\* has none, or it was never sought and is still at its start.
NoByteEver == Len(inner_data) = 0 \/ (~g_any_seek /\ inner_pos = 0)

\* C24: every read, and every getc without a pushback byte pending, sets
\* ever_read, whatever it delivers; and consuming a handle that is not
\* read-only, has had no unhandled seek, and whose source was reached by a
\* read since its making or last rewind reports a fingerprint, the one of
\* the empty input if the source never gave a byte.
C24_ZeroByteReadCounts ==
  [][/\ (last'.op = "read" \/ (last'.op = "getc" /\ ungetc_char = <<>>)) => ever_read'
     /\ (last'.op = "into_name_digest" /\ g_reached /\ ~read_only /\ ~did_unhandled_seek) =>
          /\ out'.digest # <<>>
          /\ NoByteEver => out'.digest = <<FingerprintOf(<<>>)>>]_vars

\* A pushback byte was served by a read whose tail got nothing from a
\* source that has bytes, and the handle was then consumed.
C24_Witness ==
  /\ Consumed /\ Reported
  /\ ~read_only /\ ~did_unhandled_seek
  /\ g_reached /\ g_unget /\ ~g_any_seek
  /\ ungetc_char = <<>>
  /\ inner_pos = 0 /\ Len(inner_data) >= 1
  /\ out.digest = <<FingerprintOf(<<>>)>>


\* ================================ more claims about try_normalize_tex_path
\* The pieces of a path after its root, if it has one.
AfterRoot(q) == IF Rooted(q) THEN Tail(Segments(q)) ELSE Segments(q)

\* No empty piece behind the root, no "." piece, no "/" at the end, and ".."
\* pieces only as a leading run of a path without root.
Canonical(q) ==
  /\ <<>> \notin Range(AfterRoot(q))
  /\ Dot \notin Range(AfterRoot(q))
  /\ q[Len(q)] # "/"
  /\ Rooted(q) => DotDot \notin Range(Segments(q))
  /\ \A i \in 1..Len(Segments(q)) :
       Segments(q)[i] = DotDot => i <= LeadingDotDots(Segments(q))

\* C25: normalising a normalised path gives it back; and a normalised path
\* other than "", "." and "/" is canonical.
C25_Idempotent ==
  /\ Done("normalize_again") => fx.out = Some(fx.in.path)
  /\ (Done("try_normalize_tex_path") /\ fx.out.some
        /\ fx.out.v \notin {<<>>, Dot, <<"/">>}) => Canonical(fx.out.v)

C25_Witness ==
  /\ Done("normalize_again")
  /\ fx.in.from # fx.in.path
  /\ LeadingDotDots(Segments(fx.in.path)) >= 1
  /\ \E i \in 1..Len(Segments(fx.in.path)) : IsOrdinary(Segments(fx.in.path)[i])
  /\ Dot \in Range(Segments(fx.in.from))
  /\ fx.out = Some(fx.in.path)

====
